---- MODULE Spec2Model ----
(***************************************************************************)
(* Model of the dino key-value store (src/src/lib.rs): a Database that     *)
(* keeps a serde_json::Value in memory and rewrites its whole backing file *)
(* on every mutation, and the Tree builder whose content insert_tree       *)
(* stores under one key.                                                   *)
(*                                                                         *)
(* Texts (file content, keys, string values) are sequences of characters,  *)
(* each character a one-character string.  to_string and from_str are      *)
(* modelled as a printer and a recursive-descent parser over such texts.   *)
(***************************************************************************)
EXTENDS Integers, Sequences, FiniteSets, TLC

(***************************************************************************)
(* Bounds of the model.                                                    *)
(***************************************************************************)
\* number of distinct string values a caller passes ("1", "2", ...)
NumVals == 2

Digits == <<"1", "2", "3", "4">>

\* keys passed to Database::{insert, insert_tree, remove, find, contains_key}
\* and to Tree::insert
Keys == {<<"a">>, <<"b">>}

\* string values passed to Database::insert and Tree::insert
Vals == {<<Digits[i]>> : i \in 1..NumVals}

(***************************************************************************)
(* Option<T>                                                               *)
(***************************************************************************)
None == [t |-> "None"]

Some(x) == [t |-> "Some", v |-> x]

(***************************************************************************)
(* serde_json::Value, restricted to Null, String and Object.               *)
(***************************************************************************)
Null == [t |-> "null"]

Str(s) == [t |-> "str", s |-> s]

Obj(m) == [t |-> "obj", m |-> m]

EmptyMap == [k \in {} |-> Null]

\* Map::insert: set m[k] to v, overwriting an existing entry
MapInsert(m, k, v) == [x \in (DOMAIN m) \cup {k} |-> IF x = k THEN v ELSE m[x]]

\* remove that leaves the key in the map, with Null for its value
MapRemove_null(m, k) == [x \in DOMAIN m |-> IF x = k THEN Null ELSE m[x]]

\* Map::remove: delete k when present, nothing otherwise
MapRemove(m, k) == [x \in (DOMAIN m) \ {k} |-> m[x]]

(***************************************************************************)
(* Characters and their order (the order of the keys of a Map, which is a  *)
(* BTreeMap<String, Value>).                                               *)
(***************************************************************************)
Alphabet == <<"1", "2", "3", "4", "a", "b", "c">>

Rank(c) == IF \E i \in 1..Len(Alphabet) : Alphabet[i] = c
           THEN CHOOSE i \in 1..Len(Alphabet) : Alphabet[i] = c
           ELSE 0

RECURSIVE StrLess(_, _)
StrLess(a, b) ==
    IF b = <<>> THEN FALSE
    ELSE IF a = <<>> THEN TRUE
    ELSE IF Rank(Head(a)) # Rank(Head(b)) THEN Rank(Head(a)) < Rank(Head(b))
    ELSE StrLess(Tail(a), Tail(b))

MinKey(S) == CHOOSE k \in S : \A x \in S \ {k} : StrLess(k, x)

(***************************************************************************)
(* Value::to_string (compact printer, keys in map order).                  *)
(***************************************************************************)
Quote == "\""

\* the zero byte
NUL == "\\0"

\* a printer of strings that leaves the quotes out
SerString_bare(s) == s

SerString(s) == <<Quote>> \o s \o <<Quote>>

RECURSIVE Serialize(_)
RECURSIVE SerMembers(_, _)
SerMembers(m, S) ==
    IF S = {} THEN <<>>
    ELSE LET k == MinKey(S)
         IN  SerString(k) \o <<":">> \o Serialize(m[k])
             \o (IF S = {k} THEN <<>> ELSE <<",">> \o SerMembers(m, S \ {k}))

Serialize(v) ==
    CASE v.t = "null" -> <<"n", "u", "l", "l">>
      [] v.t = "str"  -> SerString(v.s)
      [] v.t = "obj"  -> <<"{">> \o SerMembers(v.m, DOMAIN v.m) \o <<"}">>

(***************************************************************************)
(* serde_json::from_str::<Value>: a parse result is [ok, v, i], i the      *)
(* index of the first character not consumed.                              *)
(***************************************************************************)
Fail == [ok |-> FALSE, v |-> Null, i |-> 0]

Done(v, i) == [ok |-> TRUE, v |-> v, i |-> i]

IsWs(c) == c \in {" ", "\n"}

RECURSIVE SkipWs(_, _)
SkipWs(t, i) == IF i <= Len(t) /\ IsWs(t[i]) THEN SkipWs(t, i + 1) ELSE i

\* index of the closing quote of a string whose content starts at i, 0 if none
RECURSIVE CloseQuote(_, _)
CloseQuote(t, i) ==
    IF i > Len(t) THEN 0
    ELSE IF t[i] = Quote THEN i
    ELSE IF t[i] = NUL THEN 0
    ELSE CloseQuote(t, i + 1)

\* t[i] is the opening quote
ParseString(t, i) ==
    LET j == CloseQuote(t, i + 1)
    IN  IF j = 0 THEN Fail ELSE Done(SubSeq(t, i + 1, j - 1), j + 1)

IsAt(t, i, w) == i + Len(w) - 1 <= Len(t) /\ SubSeq(t, i, i + Len(w) - 1) = w

RECURSIVE ParseValue(_, _)
RECURSIVE ParseMembers(_, _, _)
\* i is the index after "{" or after a ","; m the members read so far
ParseMembers(t, i, m) ==
    LET j == SkipWs(t, i)
    IN  IF j > Len(t) \/ t[j] # Quote THEN Fail
        ELSE LET k == ParseString(t, j)
             IN  IF ~k.ok THEN Fail
                 ELSE LET c == SkipWs(t, k.i)
                      IN  IF c > Len(t) \/ t[c] # ":" THEN Fail
                          ELSE LET v == ParseValue(t, c + 1)
                               IN  IF ~v.ok THEN Fail
                                   ELSE LET e  == SkipWs(t, v.i)
                                            m2 == MapInsert(m, k.v, v.v)
                                        IN  IF e > Len(t) THEN Fail
                                            ELSE IF t[e] = "," THEN ParseMembers(t, e + 1, m2)
                                            ELSE IF t[e] = "}" THEN Done(Obj(m2), e + 1)
                                            ELSE Fail

ParseValue(t, i) ==
    LET j == SkipWs(t, i)
    IN  IF j > Len(t) THEN Fail
        ELSE IF t[j] = Quote THEN
            LET s == ParseString(t, j) IN IF s.ok THEN Done(Str(s.v), s.i) ELSE Fail
        ELSE IF t[j] = "n" THEN
            IF IsAt(t, j, <<"n", "u", "l", "l">>) THEN Done(Null, j + 4) ELSE Fail
        ELSE IF t[j] = "{" THEN
            LET e == SkipWs(t, j + 1)
            IN  IF e <= Len(t) /\ t[e] = "}" THEN Done(Obj(EmptyMap), e + 1)
                ELSE ParseMembers(t, j + 1, EmptyMap)
        ELSE Fail

\* from_str: one value, then only whitespace up to the end of the text
FromStr(t) ==
    LET r == ParseValue(t, 1)
    IN  IF r.ok /\ SkipWs(t, r.i) = Len(t) + 1 THEN r ELSE Fail

(***************************************************************************)
(* The backing file and std::fs::File.  A disk is [exists, bytes]; a file  *)
(* handle is [pos], its own cursor into the bytes of the one path.         *)
(***************************************************************************)
\* open that empties an existing file
OpenCreate_trunc(d) == [exists |-> TRUE, bytes |-> <<>>]

\* OpenOptions::new().read(true).write(true).create(true).open(path)
OpenCreate(d) == [exists |-> TRUE, bytes |-> IF d.exists THEN d.bytes ELSE <<>>]

\* Read::read_to_string: everything from the cursor to the end of the file
ReadToString(d, pos) ==
    IF pos >= Len(d.bytes) THEN <<>> ELSE SubSeq(d.bytes, pos + 1, Len(d.bytes))

\* File::set_len(0): the cursor is not moved
SetLen0(d) == [d EXCEPT !.bytes = <<>>]

\* Write::write at cursor pos: a gap between the end of the file and the
\* cursor is filled with zero bytes, bytes under the cursor are overwritten
WriteAt(d, pos, buf) ==
    LET old  == d.bytes
        n    == IF Len(old) > pos + Len(buf) THEN Len(old) ELSE pos + Len(buf)
    IN  [d EXCEPT !.bytes =
            [i \in 1..n |->
                IF i > pos /\ i <= pos + Len(buf) THEN buf[i - pos]
                ELSE IF i <= Len(old) THEN old[i]
                ELSE NUL]]

(***************************************************************************)
(* Database.  A world is the Database value together with the disk; an     *)
(* outcome is the world a call (or a statement of it) leaves, and whether  *)
(* it panicked (an unwrap of None or of Err).                              *)
(***************************************************************************)
Stores == {"db", "fresh"}

\* Database::new
new == [file |-> None, data |-> None, json |-> None]

World(st, d) == [st |-> st, disk |-> d]

Ok(w) == [w |-> w, panic |-> FALSE]

Panic(w) == [w |-> w, panic |-> TRUE]

\* run F on the world of r unless r panicked already
Then(r, F(_)) == IF r.panic THEN r ELSE F(r.w)

IsObject(v) == v.t = "obj"

\* load without the special case of the empty text
load_noempty(w) ==
    LET d1   == OpenCreate(w.disk)
        buf  == ReadToString(d1, 0)
        json == FromStr(buf)
    IN  IF ~json.ok THEN Panic(World(w.st, d1))
        ELSE Ok(World([file |-> Some([pos |-> Len(d1.bytes)]),
                       data |-> Some(buf),
                       json |-> Some(json.v)], d1))

\* Database::load
load(w) ==
    LET d1   == OpenCreate(w.disk)
        buf  == ReadToString(d1, 0)
        json == FromStr(IF buf = <<>> THEN <<"{", "}">> ELSE buf)
    IN  IF ~json.ok THEN Panic(World(w.st, d1))
        ELSE Ok(World([file |-> Some([pos |-> Len(d1.bytes)]),
                       data |-> Some(buf),
                       json |-> Some(json.v)], d1))

\* set_len that leaves the file as long as it was
TruncSetLen_keep(w) ==
    IF w.st.file = None THEN Panic(w) ELSE Ok(w)

\* truncate, first statement: self.file.as_ref().unwrap().set_len(0).unwrap()
TruncSetLen(w) ==
    IF w.st.file = None THEN Panic(w)
    ELSE Ok(World(w.st, SetLen0(w.disk)))

\* truncate, second statement: ...seek(SeekFrom::Start(0)).unwrap()
TruncSeek(w) ==
    IF w.st.file = None THEN Panic(w)
    ELSE Ok(World([w.st EXCEPT !.file = Some([pos |-> 0])], w.disk))

\* truncate without the seek: the cursor stays where the last read or write
\* left it
truncate_noseek(w) == TruncSetLen(w)

\* Database::truncate
truncate(w) == Then(TruncSetLen(w), TruncSeek)

\* self.json.as_mut().unwrap().as_object_mut().unwrap() applied to an update
\* U of the map
UpdateObject(w, U(_)) ==
    IF w.st.json = None THEN Panic(w)
    ELSE IF ~IsObject(w.st.json.v) THEN Panic(w)
    ELSE Ok(World([w.st EXCEPT !.json = Some(Obj(U(w.st.json.v.m)))], w.disk))

\* self.file.as_mut().unwrap().write(self.json.as_ref().unwrap().to_string()
\*   .as_bytes()).expect(..)
WriteJson(w) ==
    IF w.st.file = None \/ w.st.json = None THEN Panic(w)
    ELSE LET buf == Serialize(w.st.json.v)
             pos == w.st.file.v.pos
         IN  Ok(World([w.st EXCEPT !.file = Some([pos |-> pos + Len(buf)])],
                      WriteAt(w.disk, pos, buf)))

\* the value insert_tree stores: from_str(value.children.unwrap().to_string())
TreeValue(tr) ==
    IF tr.children = None THEN Fail ELSE FromStr(Serialize(tr.children.v))

\* the in-memory statement of insert_tree, insert and remove
UpdInsertTree(w, key, tr) ==
    LET v == TreeValue(tr)
    IN  IF ~v.ok THEN Panic(w)
        ELSE UpdateObject(w, LAMBDA m : MapInsert(m, key, v.v))

\* insert that keeps an existing entry
UpdInsert_keep(w, key, value) ==
    UpdateObject(w, LAMBDA m : IF key \in DOMAIN m THEN m ELSE MapInsert(m, key, Str(value)))

UpdInsert(w, key, value) == UpdateObject(w, LAMBDA m : MapInsert(m, key, Str(value)))

\* remove that leaves the map as it is
UpdRemove_keep(w, key) == UpdateObject(w, LAMBDA m : m)

UpdRemove(w, key) == UpdateObject(w, LAMBDA m : MapRemove(m, key))

\* insert_tree without the final write
insert_tree_nowrite(w, key, tr) ==
    Then(truncate(w), LAMBDA x : UpdInsertTree(x, key, tr))

\* Database::insert_tree
insert_tree(w, key, tr) ==
    Then(Then(truncate(w), LAMBDA x : UpdInsertTree(x, key, tr)), WriteJson)

\* Database::insert
insert(w, key, value) ==
    Then(Then(truncate(w), LAMBDA x : UpdInsert(x, key, value)), WriteJson)

\* remove that writes the file before it updates the map
remove_stale(w, key) ==
    Then(Then(truncate(w), WriteJson), LAMBDA x : UpdRemove(x, key))

\* Database::remove
remove(w, key) ==
    Then(Then(truncate(w), LAMBDA x : UpdRemove(x, key)), WriteJson)

\* results of the reading calls: [panic, ret]
Ret(x) == [panic |-> FALSE, ret |-> x]

RetPanic == [panic |-> TRUE, ret |-> "panic"]

NotFound == [tag |-> "Err"]

Found(v) == [tag |-> "Ok", v |-> v]

\* Index<&str> for Value: Null unless the value is an object holding the key
Index(v, key) == IF IsObject(v) /\ key \in DOMAIN v.m THEN v.m[key] ELSE Null

\* find without the test for Null
find_nonull(st, key) ==
    IF st.json = None THEN RetPanic ELSE Ret(Found(Index(st.json.v, key)))

\* Database::find
find(st, key) ==
    IF st.json = None THEN RetPanic
    ELSE LET val == Index(st.json.v, key)
         IN  IF val = Null THEN Ret(NotFound) ELSE Ret(Found(val))

\* contains_key that answers false on a Database without a tree
contains_key_lenient(st, key) ==
    IF st.json = None \/ ~IsObject(st.json.v) THEN Ret(FALSE)
    ELSE Ret(key \in DOMAIN st.json.v.m)

\* Database::contains_key
contains_key(st, key) ==
    IF st.json = None THEN RetPanic
    ELSE IF ~IsObject(st.json.v) THEN RetPanic
    ELSE Ret(key \in DOMAIN st.json.v.m)

\* Database::len
len(st) ==
    IF st.json = None THEN RetPanic
    ELSE IF ~IsObject(st.json.v) THEN RetPanic
    ELSE Ret(Cardinality(DOMAIN st.json.v.m))

(***************************************************************************)
(* Tree                                                                    *)
(***************************************************************************)
\* no Tree value at hand (none built yet, or moved into insert_tree)
NoTree == [t |-> "NoTree"]

\* Tree::new
TreeNewValue == [children |-> Some(FromStr(<<"{", "}">>).v)]

\* a Tree written as a struct literal with children: None (the field is pub)
TreeBare == [children |-> None]

\* Tree::insert that keeps an existing entry
TreeInsertValue_keep(tr, key, value) ==
    IF tr.children = None THEN [tr |-> tr, panic |-> TRUE]
    ELSE IF ~IsObject(tr.children.v) THEN [tr |-> tr, panic |-> TRUE]
    ELSE [tr    |-> [children |-> Some(Obj(
                        IF key \in DOMAIN tr.children.v.m THEN tr.children.v.m
                        ELSE MapInsert(tr.children.v.m, key, Str(value))))],
          panic |-> FALSE]

\* Tree::insert: [tr, panic]
TreeInsertValue(tr, key, value) ==
    IF tr.children = None THEN [tr |-> tr, panic |-> TRUE]
    ELSE IF ~IsObject(tr.children.v) THEN [tr |-> tr, panic |-> TRUE]
    ELSE [tr    |-> [children |-> Some(Obj(MapInsert(tr.children.v.m, key, Str(value))))],
          panic |-> FALSE]

(***************************************************************************)
(* State                                                                   *)
(***************************************************************************)
VARIABLES
    disk,   \* the file at the path: [exists, bytes]
    db,     \* db[s]: the Database value s, [file, data, json]
    tree,   \* the Tree being built, NoTree when there is none
    tcalls, \* the Tree::insert calls since Tree::new (history): [doc, over]
    pc,     \* pc[s]: Idle, or the call s is in and the statements it has run
    last,   \* the call that returned last: [who, op, key, res, ret, over]
    hist    \* hist[s]: what the calls on s since its load did (history)

vars == <<disk, db, tree, tcalls, pc, last, hist>>

\* the Database under study, and a second one constructed on the same path
Db == "db"

Fresh == "fresh"

Idle == [op |-> "idle"]

NoKey == <<>>

\* history of a Database: whether its load read an empty text, how its
\* mutating calls went ("none" yet, "ok" the last one returned, "failed" the
\* last one panicked), and the value last written under each key that was
\* inserted and not removed since
NoHist == [fromEmpty |-> FALSE, sync |-> "none", written |-> EmptyMap]

\* the record of a call that returns
Call(who, op, key, res, ret, over) ==
    [who |-> who, op |-> op, key |-> key, res |-> res, ret |-> ret, over |-> over]

ResOf(r) == IF r.panic THEN "panic" ELSE "ok"

\* what a call returned, as recorded in last
Unit == [tag |-> "unit"]

Returned(kind, r) ==
    CASE r.panic        -> [tag |-> "panic"]
      [] kind = "find"  -> r.ret
      [] kind = "bool"  -> [tag |-> "bool", b |-> r.ret]
      [] kind = "usize" -> [tag |-> "usize", n |-> r.ret]

\* file contents found at the path when the program starts
q == Quote

InitFiles ==
    { <<>>,
      <<"{", " ", q, "a", q, ":", "n", "u", "l", "l", "}", "\n">>,
      <<"{", q, "a", q>>,
      <<q, "a", q>> }

\* the Trees that Tree::new and Tree::insert build, and the bare literal
Docs == UNION {{[children |-> Some(Obj(m))] : m \in [S -> {Str(v) : v \in Vals}]} : S \in SUBSET Keys}

TreeArgs == Docs \cup {TreeBare}

\* history of the Tree: doc[k] is the value of the latest Tree::insert(k, _),
\* over whether some Tree::insert replaced an entry
NoCalls == [doc |-> EmptyMap, over |-> FALSE]

\* the object a caller expects of the Tree: its keys with their latest strings
DocOf(c) == Obj([k \in DOMAIN c.doc |-> Str(c.doc[k])])

Init ==
    /\ disk \in {[exists |-> FALSE, bytes |-> <<>>]}
                \cup {[exists |-> TRUE, bytes |-> b] : b \in InitFiles}
    /\ db = [s \in Stores |-> new]
    /\ tree = NoTree
    /\ tcalls = NoCalls
    /\ pc = [s \in Stores |-> Idle]
    /\ last = Call("main", "start", NoKey, "ok", Unit, "none")
    /\ hist = [s \in Stores |-> NoHist]

AllIdle == \A s \in Stores : pc[s] = Idle

Loaded(s) == db[s].file # None

\* One owner of the file at a time: a loaded Database makes mutating calls
\* only while no other Database holds the path open.
SoleOwner(s) == Loaded(s) => \A o \in Stores \ {s} : ~Loaded(o)

\* kind of the value this Database wrote last under key, "none" if none
Over(s, key) ==
    IF key \in DOMAIN hist[s].written THEN hist[s].written[key].t ELSE "none"

\* A mutating call of a loaded Database panicked: a fatal failure, after which
\* the program makes no further call on that Database.
Poisoned(s) == hist[s].sync = "failed"

\* the history after a mutating call with outcome r that wrote val under key
\* (val = None: the call removed key)
HistAfter(h, r, key, val) ==
    IF r.panic THEN (IF r.w.st.file = None THEN h ELSE [h EXCEPT !.sync = "failed"])
    ELSE [h EXCEPT !.sync = "ok",
                   !.written = IF val = None THEN MapRemove(@, key)
                               ELSE MapInsert(@, key, val.v)]

(***************************************************************************)
(* Calls, each a whole call.                                               *)
(***************************************************************************)
\* let db = Database::new(path), the former value (and its handle) dropped
New(s) ==
    /\ AllIdle
    /\ db' = [db EXCEPT ![s] = new]
    /\ hist' = [hist EXCEPT ![s] = NoHist]
    /\ last' = Call(s, "new", NoKey, "ok", Unit, "none")
    /\ UNCHANGED <<disk, tree, tcalls, pc>>

Load(s) ==
    /\ AllIdle
    /\ LET r == load(World(db[s], disk))
       IN  /\ db' = [db EXCEPT ![s] = r.w.st]
           /\ disk' = r.w.disk
           /\ hist' = IF r.panic THEN hist
                      ELSE [hist EXCEPT ![s] =
                               [NoHist EXCEPT !.fromEmpty = (r.w.st.data.v = <<>>)]]
           /\ last' = Call(s, "load", NoKey, ResOf(r), Unit, "none")
    /\ UNCHANGED <<tree, tcalls, pc>>

Insert(s, key, value) ==
    /\ AllIdle /\ SoleOwner(s)
    /\ LET r == insert(World(db[s], disk), key, value)
       IN  /\ db' = [db EXCEPT ![s] = r.w.st]
           /\ disk' = r.w.disk
           /\ hist' = [hist EXCEPT ![s] = HistAfter(@, r, key, Some(Str(value)))]
           /\ last' = Call(s, "insert", key, ResOf(r), Unit, Over(s, key))
    /\ UNCHANGED <<tree, tcalls, pc>>

\* insert_tree(key, tr); doc is the content the caller gave the Tree
InsertTree(s, key, tr, doc) ==
    /\ AllIdle /\ SoleOwner(s)
    /\ LET r == insert_tree(World(db[s], disk), key, tr)
       IN  /\ db' = [db EXCEPT ![s] = r.w.st]
           /\ disk' = r.w.disk
           /\ hist' = [hist EXCEPT ![s] = HistAfter(@, r, key, doc)]
           /\ last' = Call(s, "insert_tree", key, ResOf(r), Unit, Over(s, key))
    /\ UNCHANGED pc

Remove(s, key) ==
    /\ AllIdle /\ SoleOwner(s)
    /\ LET r == remove(World(db[s], disk), key)
       IN  /\ db' = [db EXCEPT ![s] = r.w.st]
           /\ disk' = r.w.disk
           /\ hist' = [hist EXCEPT ![s] = HistAfter(@, r, key, None)]
           /\ last' = Call(s, "remove", key, ResOf(r), Unit, Over(s, key))
    /\ UNCHANGED <<tree, tcalls, pc>>

\* find that rewinds the file handle
Find_rewind(s, key) ==
    /\ AllIdle
    /\ LET r == find(db[s], key)
       IN  last' = Call(s, "find", key, ResOf(r), Returned("find", r), "none")
    /\ db' = [db EXCEPT ![s].file = IF @ = None THEN None ELSE Some([pos |-> 0])]
    /\ UNCHANGED <<disk, tree, tcalls, pc, hist>>

Find(s, key) ==
    /\ AllIdle
    /\ LET r == find(db[s], key)
       IN  last' = Call(s, "find", key, ResOf(r), Returned("find", r), "none")
    /\ UNCHANGED <<disk, db, tree, tcalls, pc, hist>>

ContainsKey(s, key) ==
    /\ AllIdle
    /\ LET r == contains_key(db[s], key)
       IN  last' = Call(s, "contains_key", key, ResOf(r), Returned("bool", r), "none")
    /\ UNCHANGED <<disk, db, tree, tcalls, pc, hist>>

Length(s) ==
    /\ AllIdle
    /\ LET r == len(db[s])
       IN  last' = Call(s, "len", NoKey, ResOf(r), Returned("usize", r), "none")
    /\ UNCHANGED <<disk, db, tree, tcalls, pc, hist>>

\* a call of the Database, its Tree argument drawn from TreeArgs
DbCall(s) ==
    \/ \E key \in Keys, value \in Vals : Insert(s, key, value)
    \/ \E key \in Keys, tr \in TreeArgs :
          InsertTree(s, key, tr, tr.children) /\ UNCHANGED <<tree, tcalls>>
    \/ \E key \in Keys : Remove(s, key)
    \/ \E key \in Keys : Find(s, key)
    \/ \E key \in Keys : ContainsKey(s, key)
    \/ Length(s)

(***************************************************************************)
(* Tree calls, and insert_tree of the Tree that was built.                 *)
(***************************************************************************)
TreeNew ==
    /\ AllIdle
    /\ tree' = TreeNewValue
    /\ tcalls' = NoCalls
    /\ last' = Call("tree", "Tree::new", NoKey, "ok", Unit, "none")
    /\ UNCHANGED <<disk, db, pc, hist>>

TreeLiteral ==
    /\ AllIdle
    /\ tree' = TreeBare
    /\ tcalls' = NoCalls
    /\ last' = Call("tree", "Tree{}", NoKey, "ok", Unit, "none")
    /\ UNCHANGED <<disk, db, pc, hist>>

TreeInsert(key, value) ==
    /\ AllIdle
    /\ tree # NoTree
    /\ LET r == TreeInsertValue(tree, key, value)
       IN  /\ tree' = r.tr
           /\ tcalls' = IF r.panic THEN tcalls
                        ELSE [doc  |-> MapInsert(tcalls.doc, key, value),
                              over |-> tcalls.over \/ key \in DOMAIN tcalls.doc]
           /\ last' = Call("tree", "Tree::insert", key, ResOf(r), Unit, "none")
    /\ UNCHANGED <<disk, db, pc, hist>>

\* insert_tree(key, tree): the Tree is moved into the call
InsertBuiltTree(s, key) ==
    /\ tree # NoTree
    /\ InsertTree(s, key, tree, Some(DocOf(tcalls)))
    /\ tree' = NoTree
    /\ UNCHANGED tcalls

NextTree ==
    \/ TreeNew
    \/ TreeLiteral
    \/ \E key \in Keys, value \in Vals : TreeInsert(key, value)
    \/ ~Poisoned(Db) /\ \E key \in Keys : InsertBuiltTree(Db, key)
    \/ New(Fresh)
    \/ ~Loaded(Db) /\ Load(Db)
    \/ Load(Fresh)
    \/ \E key \in Keys : Find(Fresh, key)

\* Trees built call by call and stored by insert_tree
SpecTree == Init /\ [][NextTree]_vars

(***************************************************************************)
(* The mutating calls statement by statement.                              *)
(***************************************************************************)
\* the statements of insert, insert_tree and remove, in the order they run
\* (the first two are the body of truncate)
StmtOrder == <<"set_len", "seek", "update", "write">>

\* the effect of one statement of call c on world w
Stmt(name, c, w) ==
    CASE name = "set_len" -> TruncSetLen(w)
      [] name = "seek"    -> TruncSeek(w)
      [] name = "update"  ->
            (CASE c.op = "insert"      -> UpdInsert(w, c.key, c.arg)
               [] c.op = "insert_tree" -> UpdInsertTree(w, c.key, c.arg)
               [] c.op = "remove"      -> UpdRemove(w, c.key))
      [] name = "write"   -> WriteJson(w)

\* what the call writes under its key, None for remove
Written(c) ==
    CASE c.op = "insert"      -> Some(Str(c.arg))
      [] c.op = "insert_tree" -> c.arg.children
      [] c.op = "remove"      -> None

\* s enters a mutating call; pre and predisk are the tree and the file as the
\* call finds them (history)
Begin(s, op, key, arg) ==
    /\ pc[s] = Idle /\ SoleOwner(s)
    /\ pc' = [pc EXCEPT ![s] = [op |-> op, key |-> key, arg |-> arg, done |-> <<>>,
                                pre |-> db[s].json, predisk |-> disk]]
    /\ UNCHANGED <<disk, db, tree, tcalls, last, hist>>

\* s runs the next statement of its call; the call returns after the last
\* statement, or ends in the statement that panics
Step(s) ==
    /\ pc[s] # Idle
    /\ LET c    == pc[s]
           name == StmtOrder[Len(c.done) + 1]
           r    == Stmt(name, c, World(db[s], disk))
           end  == r.panic \/ Len(c.done) + 1 = Len(StmtOrder)
       IN  /\ db' = [db EXCEPT ![s] = r.w.st]
           /\ disk' = r.w.disk
           /\ pc' = [pc EXCEPT ![s] = IF end THEN Idle
                                      ELSE [c EXCEPT !.done = Append(@, name)]]
           /\ hist' = IF end THEN [hist EXCEPT ![s] = HistAfter(@, r, c.key, Written(c))]
                      ELSE hist
           /\ last' = IF end THEN Call(s, c.op, c.key, ResOf(r), Unit, Over(s, c.key))
                      ELSE last
    /\ UNCHANGED <<tree, tcalls>>

NextSteps ==
    \/ ~Loaded(Db) /\ Load(Db)
    \/ ~Poisoned(Db) /\ \E key \in Keys, value \in Vals : Begin(Db, "insert", key, value)
    \/ ~Poisoned(Db) /\ \E key \in Keys, tr \in TreeArgs : Begin(Db, "insert_tree", key, tr)
    \/ ~Poisoned(Db) /\ \E key \in Keys : Begin(Db, "remove", key, NoKey)
    \/ Step(Db)

\* the mutating calls of Db run statement by statement
SpecSteps == Init /\ [][NextSteps]_vars

\* Db is constructed once and loaded once ("load must be called exactly once
\* before any other operation"); Fresh is constructed and loaded at any time
\* to read the path again.
Next ==
    \/ New(Fresh)
    \/ ~Loaded(Db) /\ Load(Db)
    \/ Load(Fresh)
    \/ ~Poisoned(Db) /\ DbCall(Db)

Spec == Init /\ [][Next]_vars

\* the Trees given to insert_tree where the calls fail or Db loads again: the
\* bare literal, and the Tree of Tree::new() and one Tree::insert
SmallTrees == {TreeBare, TreeInsertValue(TreeNewValue, <<"a">>, <<Digits[1]>>).tr}

(***************************************************************************)
(* Mutating calls that an operation on the file makes fail (the unwrap of  *)
(* seek, the expect of write) once the file has been truncated.            *)
(***************************************************************************)
\* the write of a mutating call returns Err after n bytes of the text have
\* reached the file: expect panics
WriteJsonFail(w, n) ==
    IF w.st.file = None \/ w.st.json = None THEN Panic(w)
    ELSE LET buf == SubSeq(Serialize(w.st.json.v), 1, n)
             pos == w.st.file.v.pos
         IN  Panic(World([w.st EXCEPT !.file = Some([pos |-> pos + n])],
                         WriteAt(w.disk, pos, buf)))

\* the call c up to its write
BeforeWrite(c, w) == Then(truncate(w), LAMBDA x : Stmt("update", c, x))

\* the call c with its seek failing (at = "seek"), or with its write failing
\* after n bytes (at = "write")
Interrupted(c, w, at, n) ==
    IF at = "seek" THEN Then(TruncSetLen(w), Panic)
    ELSE Then(BeforeWrite(c, w), LAMBDA x : WriteJsonFail(x, n))

\* the numbers of bytes a failing write of call c can leave: fewer than the
\* text has
ShortWrites(c, w) ==
    LET u == BeforeWrite(c, w)
    IN  IF u.panic THEN {} ELSE 0..(Len(Serialize(u.w.st.json.v)) - 1)

\* a mutating call of the loaded s that fails in seek or in write
Interrupt(s, op, key, arg) ==
    /\ AllIdle /\ SoleOwner(s) /\ Loaded(s)
    /\ LET c == [op |-> op, key |-> key, arg |-> arg]
           w == World(db[s], disk)
       IN  \E at \in {"seek", "write"} :
             \E n \in IF at = "seek" THEN {0} ELSE ShortWrites(c, w) :
                LET r == Interrupted(c, w, at, n)
                IN  /\ db' = [db EXCEPT ![s] = r.w.st]
                    /\ disk' = r.w.disk
                    /\ hist' = [hist EXCEPT ![s] = HistAfter(@, r, key, Written(c))]
                    /\ last' = Call(s, op, key, ResOf(r), Unit, Over(s, key))
    /\ UNCHANGED <<tree, tcalls, pc>>

\* Db makes mutating calls, any of which may fail once it has truncated the
\* file; Fresh then loads what the failed call left
NextFail ==
    \/ ~Loaded(Db) /\ Load(Db)
    \/ ~Poisoned(Db) /\ \E key \in Keys, value \in Vals : Insert(Db, key, value)
    \/ ~Poisoned(Db) /\ \E key \in Keys, tr \in SmallTrees :
          InsertTree(Db, key, tr, tr.children) /\ UNCHANGED <<tree, tcalls>>
    \/ ~Poisoned(Db) /\ \E key \in Keys : Remove(Db, key)
    \/ ~Poisoned(Db) /\ \E key \in Keys, value \in Vals : Interrupt(Db, "insert", key, value)
    \/ ~Poisoned(Db) /\ \E key \in Keys, tr \in SmallTrees : Interrupt(Db, "insert_tree", key, tr)
    \/ ~Poisoned(Db) /\ \E key \in Keys : Interrupt(Db, "remove", key, NoKey)
    \/ Poisoned(Db) /\ Load(Fresh)

SpecFail == Init /\ [][NextFail]_vars

(***************************************************************************)
(* Db loads again while loaded.                                            *)
(***************************************************************************)
\* Db alone on the path: it loads, makes mutating calls and loads again, as
\* long as none of its mutating calls has panicked
NextReload ==
    \/ ~Poisoned(Db) /\ Load(Db)
    \/ ~Poisoned(Db) /\ \E key \in Keys, value \in Vals : Insert(Db, key, value)
    \/ ~Poisoned(Db) /\ \E key \in Keys, tr \in SmallTrees :
          InsertTree(Db, key, tr, tr.children) /\ UNCHANGED <<tree, tcalls>>
    \/ ~Poisoned(Db) /\ \E key \in Keys : Remove(Db, key)

SpecReload == Init /\ [][NextReload]_vars

(***************************************************************************)
(* Two Databases loaded on the one path, each with its own file handle,    *)
(* their mutating calls interleaved statement by statement (two threads or *)
(* two processes; nothing in the code locks the file).                     *)
(***************************************************************************)
\* s enters its mutating call, the first since its load, with every Database
\* loaded
BeginShared(s, op, key, arg) ==
    /\ pc[s] = Idle
    /\ \A o \in Stores : Loaded(o)
    /\ hist[s].sync = "none"
    /\ pc' = [pc EXCEPT ![s] = [op |-> op, key |-> key, arg |-> arg, done |-> <<>>,
                                pre |-> db[s].json, predisk |-> disk]]
    /\ UNCHANGED <<disk, db, tree, tcalls, last, hist>>

NextRace ==
    \/ \E s \in Stores : ~Loaded(s) /\ Load(s)
    \/ \E s \in Stores, key \in Keys, value \in Vals : BeginShared(s, "insert", key, value)
    \/ \E s \in Stores, key \in Keys, tr \in SmallTrees : BeginShared(s, "insert_tree", key, tr)
    \/ \E s \in Stores, key \in Keys : BeginShared(s, "remove", key, NoKey)
    \/ \E s \in Stores : Step(s)

SpecRace == Init /\ [][NextRace]_vars

(***************************************************************************)
(* Properties                                                              *)
(***************************************************************************)
\* the top-level keys of a document tree
TopKeys(v) == IF IsObject(v) THEN DOMAIN v.m ELSE {}

\* the tree of a loaded Database
Json(s) == db[s].json.v

\* what a newly constructed Database parses from disk d ("panic" when its
\* load fails)
Logical(d) ==
    LET r == load(World(new, d))
    IN  IF r.panic THEN "panic" ELSE r.w.st.json.v

\* C1 (as amended): for the one Database on the path, whenever the latest
\* mutating call since load has returned successfully, the whole content of
\* the backing file is exactly the serialization of its document tree.
ThmC1 ==
    (Loaded(Db) /\ hist[Db].sync = "ok") =>
        (disk.exists /\ disk.bytes = Serialize(Json(Db)))

\* a remove of a key written before has returned: the content was longer
WitC1 ==
    /\ Loaded(Db) /\ hist[Db].sync = "ok"
    /\ last.op = "remove" /\ last.over # "none"
    /\ TopKeys(Json(Db)) # {}

\* C1 (as stated): also right after load, with no mutating call yet, the
\* content of the file is the serialization of the document tree.
CexC1 ==
    (Loaded(Db) /\ hist[Db].sync # "failed") =>
        (disk.exists /\ disk.bytes = Serialize(Json(Db)))

\* C2: when a newly constructed Database loads the path after the calls of Db
\* (all of which returned), its tree has the top-level keys and the values of
\* the tree of Db.
ThmC2 ==
    (/\ last.who = Fresh /\ last.op = "load" /\ last.res = "ok"
     /\ Loaded(Db) /\ ~Poisoned(Db)) =>
        /\ TopKeys(Json(Fresh)) = TopKeys(Json(Db))
        /\ \A k \in TopKeys(Json(Db)) : Json(Fresh).m[k] = Json(Db).m[k]
        /\ Json(Fresh) = Json(Db)

\* Fresh loaded after Db wrote a string under one key and a sub-document with
\* two entries under the other
WitC2 ==
    /\ last.who = Fresh /\ last.op = "load" /\ last.res = "ok"
    /\ Loaded(Db) /\ hist[Db].sync = "ok"
    /\ \E k1, k2 \in TopKeys(Json(Db)) :
          /\ Json(Db).m[k1].t = "str"
          /\ Json(Db).m[k2].t = "obj"
          /\ Cardinality(DOMAIN Json(Db).m[k2].m) = 2

\* C3: find of a key written by insert or insert_tree (and not removed since)
\* returns exactly the value written last, whatever was written under the key
\* before, and len counts each key once.
ThmC3 ==
    Loaded(Db) =>
        /\ \A k \in DOMAIN hist[Db].written :
              find(db[Db], k) = Ret(Found(hist[Db].written[k]))
        /\ IsObject(Json(Db)) =>
              len(db[Db]).ret = Cardinality({k \in Keys : contains_key(db[Db], k).ret})

\* a sub-document was written over a string this Database had written
WitC3 ==
    /\ Loaded(Db)
    /\ last.op = "insert_tree" /\ last.res = "ok" /\ last.over = "str"
    /\ hist[Db].written[last.key].t = "obj"

\* C4: find on a loaded Database returns the NotFound error exactly when the
\* key is absent from the top-level mapping or its value is null, and Ok with
\* the stored value, which is not null, otherwise.
ThmC4 ==
    (last.op = "find" /\ Loaded(last.who)) =>
        LET v == Json(last.who)
            k == last.key
        IN  /\ last.res = "ok"
            /\ (last.ret = NotFound) <=> (k \notin TopKeys(v) \/ v.m[k] = Null)
            /\ (last.ret # NotFound) => (last.ret = Found(v.m[k]) /\ last.ret.v # Null)

\* find was called for a key that is present with the value null
WitC4 ==
    /\ last.op = "find" /\ Loaded(last.who)
    /\ last.key \in TopKeys(Json(last.who))
    /\ Json(last.who).m[last.key] = Null
    /\ last.ret = NotFound

ThmC6 ==
    [][\A s \in Stores :
        ((~disk.exists \/ disk.bytes = <<>>) /\ Load(s))
        => (/\ last'.res = "ok"
            /\ disk'.exists
            /\ len(db'[s]) = Ret(0)
            /\ \A k \in Keys : contains_key(db'[s], k) = Ret(FALSE))]_vars

\* Db has loaded an empty text
WitC6 ==
    /\ last.op = "load" /\ last.who = Db /\ last.res = "ok"
    /\ hist[Db].fromEmpty /\ disk.bytes = <<>>

\* C7: on a Database that is not loaded, find, contains_key, len, insert,
\* insert_tree and remove panic, leave the Database unloaded and neither
\* create nor modify the file.
ThmC7 ==
    [][\A s \in Stores :
        (~Loaded(s) /\ DbCall(s))
        => (/\ last'.res = "panic"
            /\ db'[s] = new
            /\ disk' = disk)]_vars

\* insert_tree panicked on the unloaded Db, and there is still no file
WitC7 ==
    /\ last.op = "insert_tree" /\ last.who = Db /\ last.res = "panic"
    /\ db[Db] = new
    /\ ~disk.exists

\* C8: after load of an empty file, contains_key(k) is true exactly for the
\* keys k inserted (by insert or insert_tree) and not removed since, and len
\* is the number of these keys.
ThmC8 ==
    (Loaded(Db) /\ hist[Db].fromEmpty /\ ~Poisoned(Db)) =>
        /\ \A k \in Keys : contains_key(db[Db], k) = Ret(k \in DOMAIN hist[Db].written)
        /\ len(db[Db]) = Ret(Cardinality(DOMAIN hist[Db].written))

\* a present key was removed and another key stays
WitC8 ==
    /\ Loaded(Db) /\ hist[Db].fromEmpty
    /\ last.op = "remove" /\ last.res = "ok" /\ last.over # "none"
    /\ Cardinality(DOMAIN hist[Db].written) = 1

\* C9: for a Tree built by Tree::new and Tree::insert calls, insert_tree
\* stores under the key the object of the Tree's keys with their latest
\* strings, every value of it a string, and find on a Database that loads the
\* path afterwards returns that same object.
ThmC9 ==
    (Loaded(Db) /\ ~Poisoned(Db)) =>
        \A k \in DOMAIN hist[Db].written :
            LET doc == hist[Db].written[k]
            IN  /\ Index(Json(Db), k) = doc
                /\ \A x \in DOMAIN Index(Json(Db), k).m : Index(Json(Db), k).m[x].t = "str"
                /\ (last.op = "find" /\ last.who = Fresh /\ last.key = k /\ Loaded(Fresh))
                      => last.ret = Found(doc)

\* find on the reloaded path returned a sub-document of two entries, built
\* by Tree::insert calls one of which replaced an entry
WitC9 ==
    /\ Loaded(Db) /\ ~Poisoned(Db)
    /\ last.op = "find" /\ last.who = Fresh /\ Loaded(Fresh)
    /\ last.key \in DOMAIN hist[Db].written
    /\ hist[Db].written[last.key] = DocOf(tcalls)
    /\ Cardinality(DOMAIN tcalls.doc) = 2
    /\ tcalls.over

\* the order of the steps of a mutating call as C10 states it
ClaimedOrder == <<"update", "set_len", "seek", "write">>

IsPrefix(a, b) == Len(a) <= Len(b) /\ a = SubSeq(b, 1, Len(a))

\* C10: in every insert, insert_tree and remove the tree is updated first,
\* then the file is truncated, then the cursor is reset, then the tree is
\* written; the file is never truncated while the call has not updated the
\* tree.
CexC10 ==
    \A s \in Stores :
        pc[s] # Idle =>
            /\ IsPrefix(pc[s].done, ClaimedOrder)
            /\ (db[s].json = pc[s].pre /\ pc[s].predisk.bytes # <<>>) => disk.bytes # <<>>

\* the statements of a mutating call run in the order of StmtOrder, and a
\* call that panics in its update has emptied the file already
StepsInOrder ==
    \A s \in Stores : pc[s] # Idle => IsPrefix(pc[s].done, StmtOrder)

\* C12: insert_tree(key, document) with a document whose children is absent
\* panics, and the call that panicked leaves the document tree and the
\* content of the backing file as they were before the call.
CexC12 ==
    [][\A key \in Keys :
          (Loaded(Db) /\ InsertTree(Db, key, TreeBare, None)) =>
              (/\ last'.res = "panic"
               /\ db'[Db].json = db[Db].json
               /\ disk'.bytes = disk.bytes)]_vars

\* the panic of insert_tree with absent children comes after the truncation:
\* the tree is as it was and the file is empty
BareTreeEmptiesFile ==
    [][\A key \in Keys :
          (Loaded(Db) /\ InsertTree(Db, key, TreeBare, None)) =>
              (/\ last'.res = "panic"
               /\ db'[Db].json = db[Db].json
               /\ disk'.bytes = <<>>)]_vars

\* the operations other than load all panic on the Database st
OthersPanic(st, d) ==
    /\ len(st).panic
    /\ \A key \in Keys :
          /\ find(st, key).panic
          /\ contains_key(st, key).panic
          /\ remove(World(st, d), key).panic
          /\ \A value \in Vals : insert(World(st, d), key, value).panic
          /\ \A tr \in TreeArgs : insert_tree(World(st, d), key, tr).panic

\* the file holds text that is not empty and does not parse
Unparseable(d) == d.exists /\ d.bytes # <<>> /\ ~FromStr(d.bytes).ok

\* C13: load of a file whose text is not empty and does not parse panics; it
\* leaves the content of the file as it was and the Database unloaded (file,
\* data and json all None), so that every operation other than load panics
\* on it too.
ThmC13 ==
    [][\A s \in Stores :
          (~Loaded(s) /\ Unparseable(disk) /\ Load(s)) =>
              (/\ last'.res = "panic"
               /\ disk' = disk
               /\ db'[s] = new
               /\ OthersPanic(db'[s], disk'))]_vars

\* a load of the unparseable file has panicked and left the Database unloaded
WitC13 ==
    /\ Unparseable(disk)
    /\ last.who = Db /\ last.op = "load" /\ last.res = "panic"
    /\ db[Db] = new

\* C14: on a loaded Database find, contains_key and len leave the tree, the
\* text kept from load, the content of the file and the position of the file
\* handle as they were, so that the mutating calls around them find the
\* state they would have found without them.
ThmC14 ==
    [][\A s \in Stores :
          (/\ Loaded(s)
           /\ \/ \E key \in Keys : Find(s, key)
              \/ \E key \in Keys : ContainsKey(s, key)
              \/ Length(s)) =>
              (db' = db /\ disk' = disk)]_vars

\* a reading call returned between the mutating calls of Db
WitC14 ==
    /\ Loaded(Db) /\ hist[Db].sync = "ok"
    /\ last.who = Db /\ last.op \in {"find", "contains_key", "len"}
    /\ last.res = "ok"
    /\ TopKeys(Json(Db)) # {}

\* C17: on a Database loaded from an empty file and changed by insert,
\* insert_tree (of Trees built by Tree::new and Tree::insert) and remove,
\* contains_key(k) is true exactly when find(k) is Ok, and len() is the
\* number of keys for which find is Ok.
ThmC17 ==
    (Loaded(Db) /\ hist[Db].fromEmpty) =>
        /\ \A k \in Keys :
              (contains_key(db[Db], k) = Ret(TRUE)) <=> (find(db[Db], k).ret.tag = "Ok")
        /\ \A k \in Keys : contains_key(db[Db], k).ret \in BOOLEAN
        /\ len(db[Db]) = Ret(Cardinality({k \in Keys : find(db[Db], k).ret.tag = "Ok"}))

\* the Database loaded from the empty file holds a string and an object
WitC17 ==
    /\ Loaded(Db) /\ hist[Db].fromEmpty
    /\ \E k1, k2 \in Keys :
          /\ find(db[Db], k1).ret.tag = "Ok" /\ find(db[Db], k1).ret.v.t = "str"
          /\ find(db[Db], k2).ret.tag = "Ok" /\ find(db[Db], k2).ret.v.t = "obj"
    /\ len(db[Db]) = Ret(2)

\* contains_key, len, find, insert and remove all return on the Database st
NonePanics(st, d) ==
    /\ ~len(st).panic
    /\ \A key \in Keys :
          /\ ~find(st, key).panic
          /\ ~contains_key(st, key).panic
          /\ ~remove(World(st, d), key).panic
          /\ \A value \in Vals : ~insert(World(st, d), key, value).panic

\* C16: once load has returned, whatever valid text the file held, every
\* later contains_key, len, find, insert and remove returns without a panic
\* (no operation on the file failing), and insert_tree panics only when the
\* children of its Tree are absent.
CexC16 ==
    \A s \in Stores :
        (Loaded(s) /\ ~Poisoned(s)) =>
            /\ NonePanics(db[s], disk)
            /\ \A key \in Keys, tr \in TreeArgs :
                  insert_tree(World(db[s], disk), key, tr).panic <=> (tr = TreeBare)

\* what the code gives: the calls return when the loaded tree is an object,
\* and all but find panic when it is any other value
ObjectTreeNeverPanics ==
    \A s \in Stores :
        (Loaded(s) /\ ~Poisoned(s)) =>
            /\ IsObject(Json(s)) => NonePanics(db[s], disk)
            /\ ~IsObject(Json(s)) =>
                  /\ len(db[s]).panic
                  /\ \A key \in Keys :
                        /\ find(db[s], key) = Ret(NotFound)
                        /\ contains_key(db[s], key).panic
                        /\ remove(World(db[s], disk), key).panic
                        /\ \A value \in Vals : insert(World(db[s], disk), key, value).panic

\* C18: a load on the loaded Db, after any number of mutating calls that all
\* returned and with no other writer on the path, returns and leaves the tree
\* and the content of the file as they were; after the mutating calls that
\* follow, made through the new file handle, the file is again the
\* serialization of the tree.
ThmC18 ==
    [][/\ (Loaded(Db) /\ ~Poisoned(Db) /\ Load(Db)) =>
             (/\ last'.res = "ok"
              /\ db'[Db].json = db[Db].json
              /\ disk' = disk)
       /\ (/\ Loaded(Db) /\ db[Db].data.v \notin InitFiles
           /\ last'.who = Db /\ last'.op \in {"insert", "insert_tree", "remove"}
           /\ last'.res = "ok") =>
             disk'.bytes = Serialize(db'[Db].json.v)]_vars

\* Db has loaded text that an earlier call of its own wrote, and a mutating
\* call has returned since
WitC18 ==
    /\ Loaded(Db) /\ hist[Db].sync = "ok"
    /\ db[Db].data.v \notin InitFiles
    /\ db[Db].data.v # disk.bytes
    /\ TopKeys(Json(Db)) # {}

\* a is b cut short
IsStrictPrefix(a, b) == Len(a) < Len(b) /\ a = SubSeq(b, 1, Len(a))

\* C11: after a mutating call that failed once it had truncated the file,
\* the file is empty or holds a strict prefix of the serialization of the
\* tree, and a later load of the file either gives an empty tree (len() is
\* 0) or panics: it never returns with a tree that is not empty.
ThmC11 ==
    Poisoned(Db) =>
        /\ IsStrictPrefix(disk.bytes, Serialize(Json(Db)))
        /\ LET r == load(World(new, disk))
           IN  r.panic \/ (~len(r.w.st).panic /\ len(r.w.st).ret = 0)
        /\ (last.who = Fresh /\ last.op = "load") =>
              \/ last.res = "panic" /\ db[Fresh] = new
              \/ /\ last.res = "ok"
                 /\ ~len(db[Fresh]).panic /\ len(db[Fresh]).ret = 0

\* a write of Db failed part of the way, and the load of Fresh that followed
\* panicked
WitC11 ==
    /\ Poisoned(Db)
    /\ disk.bytes # <<>>
    /\ last.who = Fresh /\ last.op = "load" /\ last.res = "panic"

\* C15: with two Databases loaded on the path and their mutating calls
\* interleaved at the statements set_len, seek and write, once the calls have
\* all returned the file is exactly the serialization of the tree of the
\* Database whose write completed last, with no byte of the other's text.
CexC15 ==
    (AllIdle /\ \A s \in Stores : hist[s].sync = "ok") =>
        disk.bytes = Serialize(Json(last.who))

\* what the code gives: the file begins with the serialization of the tree
\* of the Database whose write completed last, and what follows it is the
\* end of the longer text the other Database wrote
LastWriteIsPrefix ==
    (AllIdle /\ \A s \in Stores : hist[s].sync = "ok") =>
        IsPrefix(Serialize(Json(last.who)), disk.bytes)

====
